---- MODULE Spec2Model ----
(***************************************************************************)
(* dupes (src/dupes.go): the walk / hash / report pipeline.                *)
(*                                                                         *)
(* main runs the tree walk on its own thread, a goroutine hashes what the  *)
(* walk pushes on the paths channel, and (unless -quiet) a second          *)
(* goroutine prints what both push on the global errors channel.           *)
(*                                                                         *)
(* filepath.Walk is library code: a run of it is the sequence of calls it  *)
(* makes to the visit callback, one entry per call (tree).  The path of    *)
(* the i-th visited entry is i.  crypto/sha1 is library code too: Sha1Sum  *)
(* is taken collision free, so a digest is identified with the byte        *)
(* stream that was written to the hash.                                    *)
(***************************************************************************)
EXTENDS Integers, Sequences, FiniteSets, Bags, TLC

VARIABLES
    tree,        \* the visit calls filepath.Walk makes, in order
    nargs,       \* flag.NArg()
    quiet,       \* -quiet
    pairs,       \* -pairs
    root,        \* main's root
    pcMain,      \* where main (and walk, which it calls) stands
    idx,         \* number of visit calls made so far
    walkErr,     \* what filepath.Walk returns to walk
    exitcode,    \* walk's named result / main's exitcode
    exitStatus,  \* status the process ended with, NoExit while it runs
    chansMade,   \* the three channels exist
    paths,       \* buffered contents of chan pathInfo
    pathsClosed,
    errors,      \* buffered contents of the global chan error
    errClosed,
    hashdone,    \* buffered contents of chan empty
    hashPc,      \* where the hash goroutine stands
    hashErr,     \* the error hash is about to send
    byhash,      \* map[string][]string
    sinkPc,      \* where the error printing goroutine stands
    sinkCur,     \* the error it received and has not printed yet
    visited,     \* keys of byhash the reporting loop has been through
    stdout,      \* lines written to os.Stdout
    stderr,      \* lines written to os.Stderr
    sentErrs,    \* history: bag of the error records sent on errors
    received,    \* history: paths hash received, in order
    panicked     \* a send on a closed channel happened

vars == <<tree, nargs, quiet, pairs, root, pcMain, idx, walkErr, exitcode,
          exitStatus, chansMade, paths, pathsClosed, errors, errClosed,
          hashdone, hashPc, hashErr, byhash, sinkPc, sinkCur, visited,
          stdout, stderr, sentErrs, received, panicked>>

-----------------------------------------------------------------------------
(* Program constants *)

ErrCap == 10

DoneCap == 10

PathCap == 10

UsageStatus == 3

(* Bounds of the model *)

MaxEntries == 3

MaxExtra == 1

-----------------------------------------------------------------------------
(* Values *)

Nil == <<>>

\* exitStatus while the process runs.
NoExit == 0 - 1

SP == " "

Prog == "dupes"

\* File contents: "x" and "y".
ContentX == <<120>>

ContentY == <<121>>

\* An entry visited without error: its mode, its size as Lstat reported it
\* and what reading it yields when hash gets to it.
File(size, content, fail) ==
    [err |-> FALSE, mode |-> "regular", size |-> size, content |-> content,
     fail |-> fail]

Dir == [err |-> FALSE, mode |-> "dir", size |-> 0, content |-> <<>>,
        fail |-> "none"]

\* A visit call with err != nil.
TravErr == [err |-> TRUE, mode |-> "none", size |-> 0, content |-> <<>>,
            fail |-> "none"]

BadOpen == File(1, ContentX, "open")

BadRead == File(1, ContentX, "read")

Entries ==
    { File(1, ContentX, "none"), File(1, ContentY, "none"), File(2, ContentX, "none"),
      BadOpen, BadRead, Dir, TravErr }

SeqsUpTo(S, n) == UNION { [1..k -> S] : k \in 0..n }

SmallTrees == SeqsUpTo(Entries, MaxEntries)

\* Walks that fail often enough to fill the errors channel: k failing visits
\* and n - k files that cannot be opened, in either order.
FloodTrees ==
    UNION { { [i \in 1..n |-> IF i <= k THEN TravErr ELSE BadOpen],
              [i \in 1..n |-> IF i <= k THEN BadOpen ELSE TravErr] } :
            <<n, k>> \in { nk \in (ErrCap..(ErrCap + MaxExtra)) \X (0..(ErrCap + MaxExtra)) :
                            nk[2] \in {0, 1, nk[1] - 1, nk[1]} } }

\* The command lines and trees of the model.  The number of arguments only
\* decides the root and whether main gets past its usage check, so it varies
\* over the shortest trees alone.
Inputs ==
    { [tree |-> t, quiet |-> q, pairs |-> p, nargs |-> 1] :
        t \in SmallTrees, q \in BOOLEAN, p \in BOOLEAN }
    \cup
    { [tree |-> t, quiet |-> q, pairs |-> p, nargs |-> n] :
        t \in SeqsUpTo(Entries, 1), q \in BOOLEAN, p \in BOOLEAN, n \in {0, 2} }
    \cup
    { [tree |-> t, quiet |-> q, pairs |-> FALSE, nargs |-> 1] :
        t \in FloodTrees, q \in BOOLEAN }

-----------------------------------------------------------------------------
(* Pure functions *)

\* n shifted right by k bytes.
RECURSIVE Shr8(_, _)
Shr8(n, k) == IF k = 0 THEN n ELSE Shr8(n \div 256, k - 1)

\* binary.Write(sha, binary.BigEndian, size) with size an int64: 8 bytes,
\* most significant first.
BigEndian64(size) == [i \in 1..8 |-> Shr8(size, 8 - i) % 256]

\* sha.Sum(nil) after the bytes of stream were written.
Sha1Sum(stream) == stream


\* hashFile without the binary.Write of the size: the content alone is
\* hashed.
hashFile_NoSize(path, size) ==
    LET f == tree[path] IN
    IF f.fail = "open" THEN [h |-> <<>>, err |-> <<"open", path>>]
    ELSE IF f.fail = "read" THEN [h |-> <<>>, err |-> <<"read", path>>]
    ELSE [h |-> Sha1Sum(f.content), err |-> Nil]

hashFile(path, size) ==
    LET f == tree[path] IN
    IF f.fail = "open" THEN [h |-> <<>>, err |-> <<"open", path>>]
    ELSE IF f.fail = "read" THEN [h |-> <<>>, err |-> <<"read", path>>]
    ELSE [h |-> Sha1Sum(BigEndian64(size) \o f.content), err |-> Nil]

\* visit without the test of the mode bits.
IsRegular_Always(info) == TRUE

\* info.Mode() & os.ModeType == 0
IsRegular(info) == info.mode = "regular"

\* strings.Join(ps, sep)
RECURSIVE Join(_, _)
Join(ps, sep) ==
    IF ps = <<>> THEN <<>>
    ELSE IF Len(ps) = 1 THEN <<ps[1]>>
    ELSE <<ps[1], sep>> \o Join(Tail(ps), sep)

\* fmt.Println(p, q): the operands separated by a space, one line.
Println2(p, q) == <<p, SP, q>>

\* The lines of the inner loop of printpairs for p = ps[i], from q = ps[j] on.
RECURSIVE PairsFrom(_, _, _)
PairsFrom(ps, i, j) ==
    IF i > Len(ps) THEN <<>>
    ELSE IF j > Len(ps) THEN PairsFrom(ps, i + 1, i + 2)
    ELSE <<Println2(ps[i], ps[j])>> \o PairsFrom(ps, i, j + 1)

\* printpairs with the inner loop over paths[i:] for paths[i+1:].
printpairs_WithSelf(ps) == PairsFrom(ps, 1, 1)

printpairs(ps) == PairsFrom(ps, 1, 2)


\* The loop body with len(paths) > 0 for len(paths) > 1.
BucketLines_Singles(ps) ==
    IF Len(ps) > 0
    THEN IF pairs THEN printpairs(ps) ELSE <<Join(ps, SP)>>
    ELSE <<>>

\* The body of main's loop over byhash for one bucket.
BucketLines(ps) ==
    IF Len(ps) > 1
    THEN IF pairs THEN printpairs(ps) ELSE <<Join(ps, SP)>>
    ELSE <<>>

\* The path put in front of the bucket instead of behind it.
MapAppend_Prepend(m, h, p) ==
    IF h \in DOMAIN m THEN [m EXCEPT ![h] = <<p>> \o @] ELSE m @@ (h :> <<p>>)

\* byhash[h] = append(byhash[h], p)
MapAppend(m, h, p) ==
    IF h \in DOMAIN m THEN [m EXCEPT ![h] = Append(@, p)] ELSE m @@ (h :> <<p>>)

-----------------------------------------------------------------------------
(* Initial state: the command line and the tree are the run's inputs. *)

Init ==
    /\ \E in \in Inputs :
          /\ tree = in.tree
          /\ quiet = in.quiet
          /\ pairs = in.pairs
          /\ nargs = in.nargs
    /\ root = Nil
    /\ pcMain = "start"
    /\ idx = 0
    /\ walkErr = Nil
    /\ exitcode = 0
    /\ exitStatus = NoExit
    /\ chansMade = FALSE
    /\ paths = <<>>
    /\ pathsClosed = FALSE
    /\ errors = <<>>
    /\ errClosed = FALSE
    /\ hashdone = <<>>
    /\ hashPc = "notstarted"
    /\ hashErr = Nil
    /\ byhash = <<>>
    /\ sinkPc = "notstarted"
    /\ sinkCur = Nil
    /\ visited = {}
    /\ stdout = <<>>
    /\ stderr = <<>>
    /\ sentErrs = EmptyBag
    /\ received = <<>>
    /\ panicked = FALSE

\* The process has neither exited nor died.
Alive == exitStatus = NoExit

\* errors made without a buffer: with nobody receiving, a send waits.
SendErr_Unbuffered(rec) ==
    /\ errClosed \/ (Len(errors) < 1 /\ sinkPc = "recv")
    /\ IF errClosed
       THEN /\ panicked' = TRUE
            /\ exitStatus' = 2
            /\ UNCHANGED <<errors, sentErrs>>
       ELSE /\ errors' = Append(errors, rec)
            /\ sentErrs' = sentErrs (+) SetToBag({rec})
            /\ UNCHANGED <<panicked, exitStatus>>

\* errors <- rec.  The send waits while the buffer is full; on a closed
\* channel it panics, which ends the process.
SendErr(rec) ==
    /\ errClosed \/ Len(errors) < ErrCap
    /\ IF errClosed
       THEN /\ panicked' = TRUE
            /\ exitStatus' = 2
            /\ UNCHANGED <<errors, sentErrs>>
       ELSE /\ errors' = Append(errors, rec)
            /\ sentErrs' = sentErrs (+) SetToBag({rec})
            /\ UNCHANGED <<panicked, exitStatus>>

-----------------------------------------------------------------------------
(* main *)

\* flag.NArg() > 1: the usage message and os.Exit(3).
MainUsage ==
    /\ Alive
    /\ pcMain = "start"
    /\ nargs > 1
    /\ stderr' = Append(stderr, <<"usage", Prog>>)
    /\ exitStatus' = UsageStatus
    /\ pcMain' = "exited"
    /\ UNCHANGED <<tree, nargs, quiet, pairs, root, idx, walkErr, exitcode,
                   chansMade, paths, pathsClosed, errors, errClosed, hashdone,
                   hashPc, hashErr, byhash, sinkPc, sinkCur, visited, stdout,
                   sentErrs, received, panicked>>


\* main starting the error printing goroutine whatever -quiet says.
MainSetup_AlwaysSink ==
    /\ Alive
    /\ pcMain = "start"
    /\ nargs <= 1
    /\ root' = IF nargs = 0 THEN "." ELSE "arg"
    /\ chansMade' = TRUE
    /\ hashPc' = "recv"
    /\ sinkPc' = "recv"
    /\ pcMain' = "walk"
    /\ UNCHANGED <<tree, nargs, quiet, pairs, idx, walkErr, exitcode,
                   exitStatus, paths, pathsClosed, errors, errClosed, hashdone,
                   hashErr, byhash, sinkCur, visited, stdout, stderr,
                   sentErrs, received, panicked>>

\* main without the default case of the switch on flag.NArg().
MainSetup_NoArgCheck ==
    /\ Alive
    /\ pcMain = "start"
    /\ root' = IF nargs = 0 THEN "." ELSE "arg"
    /\ chansMade' = TRUE
    /\ hashPc' = "recv"
    /\ sinkPc' = IF ~quiet THEN "recv" ELSE "notstarted"
    /\ pcMain' = "walk"
    /\ UNCHANGED <<tree, nargs, quiet, pairs, idx, walkErr, exitcode,
                   exitStatus, paths, pathsClosed, errors, errClosed, hashdone,
                   hashErr, byhash, sinkCur, visited, stdout, stderr,
                   sentErrs, received, panicked>>

\* The root, the map, the channels and the goroutines; then walk is called.
MainSetup ==
    /\ Alive
    /\ pcMain = "start"
    /\ nargs <= 1
    /\ root' = IF nargs = 0 THEN "." ELSE "arg"
    /\ chansMade' = TRUE
    /\ hashPc' = "recv"
    /\ sinkPc' = IF ~quiet THEN "recv" ELSE "notstarted"
    /\ pcMain' = "walk"
    /\ UNCHANGED <<tree, nargs, quiet, pairs, idx, walkErr, exitcode,
                   exitStatus, paths, pathsClosed, errors, errClosed, hashdone,
                   hashErr, byhash, sinkCur, visited, stdout, stderr,
                   sentErrs, received, panicked>>

\* visit handing its error back to filepath.Walk, which then stops and
\* returns it.
VisitReturn_Err(path, info) == IF info.err THEN <<"walk", path>> ELSE Nil

\* What visit returns to filepath.Walk.
VisitReturn(path, info) == Nil


\* visit without exitcode = 1 in its error branch.
WalkVisit_NoStatus ==
    /\ Alive
    /\ pcMain = "walk"
    /\ walkErr = Nil
    /\ idx < Len(tree)
    /\ LET path == idx + 1
           info == tree[path]
       IN  /\ IF ~info.err
              THEN /\ IF IsRegular(info)
                      THEN /\ Len(paths) < PathCap
                           /\ paths' = Append(paths, [path |-> path, size |-> info.size])
                      ELSE UNCHANGED paths
                   /\ UNCHANGED <<errors, sentErrs, panicked, exitStatus>>
              ELSE /\ SendErr(<<"walk", path>>)
                   /\ UNCHANGED paths
           /\ walkErr' = VisitReturn(path, info)
           /\ idx' = path
    /\ UNCHANGED <<tree, nargs, quiet, pairs, root, pcMain, chansMade,
                   pathsClosed, errClosed, hashdone, hashPc, hashErr, byhash,
                   sinkPc, sinkCur, visited, stdout, stderr, received,
                   exitcode>>

\* One call of visit by filepath.Walk, for the next entry.
WalkVisit ==
    /\ Alive
    /\ pcMain = "walk"
    /\ walkErr = Nil
    /\ idx < Len(tree)
    /\ LET path == idx + 1
           info == tree[path]
       IN  /\ IF ~info.err
              THEN /\ IF IsRegular(info)
                      THEN /\ Len(paths) < PathCap
                           /\ paths' = Append(paths, [path |-> path, size |-> info.size])
                      ELSE UNCHANGED paths
                   /\ UNCHANGED <<errors, sentErrs, panicked, exitStatus, exitcode>>
              ELSE /\ SendErr(<<"walk", path>>)
                   /\ exitcode' = 1
                   /\ UNCHANGED paths
           /\ walkErr' = VisitReturn(path, info)
           /\ idx' = path
    /\ UNCHANGED <<tree, nargs, quiet, pairs, root, pcMain, chansMade,
                   pathsClosed, errClosed, hashdone, hashPc, hashErr, byhash,
                   sinkPc, sinkCur, visited, stdout, stderr, received>>


\* walk returning without close(paths).
WalkReturn_NoClose ==
    /\ Alive
    /\ pcMain = "walk"
    /\ walkErr # Nil \/ idx = Len(tree)
    /\ IF walkErr # Nil
       THEN /\ SendErr(walkErr)
            /\ exitcode' = 1
       ELSE UNCHANGED <<errors, sentErrs, panicked, exitStatus, exitcode>>
    /\ pcMain' = "waithash"
    /\ UNCHANGED <<tree, nargs, quiet, pairs, root, idx, walkErr, chansMade,
                   paths, pathsClosed, errClosed, hashdone, hashPc, hashErr,
                   byhash, sinkPc, sinkCur, visited, stdout, stderr, received>>

\* filepath.Walk has returned: the check of its result, close(paths) and
\* the return to main.
WalkReturn ==
    /\ Alive
    /\ pcMain = "walk"
    /\ walkErr # Nil \/ idx = Len(tree)
    /\ IF walkErr # Nil
       THEN /\ SendErr(walkErr)
            /\ exitcode' = 1
       ELSE UNCHANGED <<errors, sentErrs, panicked, exitStatus, exitcode>>
    /\ pathsClosed' = TRUE
    /\ pcMain' = "waithash"
    /\ UNCHANGED <<tree, nargs, quiet, pairs, root, idx, walkErr, chansMade,
                   paths, errClosed, hashdone, hashPc, hashErr, byhash, sinkPc,
                   sinkCur, visited, stdout, stderr, received>>


\* main going on to close(errors) without the receive from hashdone.
MainWaitHash_NoWait ==
    /\ Alive
    /\ pcMain = "waithash"
    /\ pcMain' = "closeerrors"
    /\ UNCHANGED <<tree, nargs, quiet, pairs, root, idx, walkErr, exitcode,
                   exitStatus, chansMade, paths, pathsClosed, errors,
                   errClosed, hashdone, hashErr, hashPc, byhash, sinkPc,
                   sinkCur, visited, stdout, stderr, sentErrs, received,
                   panicked>>

\* <-hashdone
MainWaitHash ==
    /\ Alive
    /\ pcMain = "waithash"
    /\ Len(hashdone) > 0
    /\ hashdone' = Tail(hashdone)
    /\ pcMain' = "closeerrors"
    /\ UNCHANGED <<tree, nargs, quiet, pairs, root, idx, walkErr, exitcode,
                   exitStatus, chansMade, paths, pathsClosed, errors,
                   errClosed, hashErr, hashPc, byhash, sinkPc, sinkCur,
                   visited, stdout, stderr, sentErrs, received, panicked>>

\* close(errors)
MainCloseErrors ==
    /\ Alive
    /\ pcMain = "closeerrors"
    /\ errClosed' = TRUE
    /\ pcMain' = "report"
    /\ UNCHANGED <<tree, nargs, quiet, pairs, root, idx, walkErr, exitcode,
                   exitStatus, chansMade, paths, pathsClosed, errors, hashdone,
                   hashPc, hashErr, byhash, sinkPc, sinkCur, visited, stdout,
                   stderr, sentErrs, received, panicked>>

\* One iteration of the loop over byhash; the map yields its keys in any
\* order.
MainReport ==
    /\ Alive
    /\ pcMain = "report"
    /\ \E h \in DOMAIN byhash \ visited :
          /\ stdout' = stdout \o BucketLines(byhash[h])
          /\ visited' = visited \cup {h}
    /\ UNCHANGED <<tree, nargs, quiet, pairs, root, pcMain, idx, walkErr,
                   exitcode, exitStatus, chansMade, paths, pathsClosed, errors,
                   errClosed, hashdone, hashPc, hashErr, byhash, sinkPc,
                   sinkCur, stderr, sentErrs, received, panicked>>


\* main exiting with 1 when any error record was sent.
MainExit_AnyError ==
    /\ Alive
    /\ pcMain = "report"
    /\ visited = DOMAIN byhash
    /\ exitStatus' = IF BagCardinality(sentErrs) > 0 THEN 1 ELSE exitcode
    /\ pcMain' = "exited"
    /\ UNCHANGED <<tree, nargs, quiet, pairs, root, idx, walkErr, exitcode,
                   chansMade, paths, pathsClosed, errors, errClosed, hashdone,
                   hashPc, hashErr, byhash, sinkPc, sinkCur, visited, stdout,
                   stderr, sentErrs, received, panicked>>

\* The loop is over: os.Exit(exitcode).
MainExit ==
    /\ Alive
    /\ pcMain = "report"
    /\ visited = DOMAIN byhash
    /\ exitStatus' = exitcode
    /\ pcMain' = "exited"
    /\ UNCHANGED <<tree, nargs, quiet, pairs, root, idx, walkErr, exitcode,
                   chansMade, paths, pathsClosed, errors, errClosed, hashdone,
                   hashPc, hashErr, byhash, sinkPc, sinkCur, visited, stdout,
                   stderr, sentErrs, received, panicked>>

-----------------------------------------------------------------------------
(* go hash(paths, byhash, hashdone) *)


\* hash appending the path whether or not hashFile failed.
HashRecv_AppendAlways ==
    /\ Alive
    /\ hashPc = "recv"
    /\ Len(paths) > 0
    /\ LET p == Head(paths)
           r == hashFile(p.path, p.size)
       IN  /\ paths' = Tail(paths)
           /\ received' = Append(received, p.path)
           /\ byhash' = MapAppend(byhash, r.h, p.path)
           /\ IF r.err = Nil
              THEN UNCHANGED <<hashErr, hashPc>>
              ELSE /\ hashErr' = r.err
                   /\ hashPc' = "senderr"
    /\ UNCHANGED <<tree, nargs, quiet, pairs, root, pcMain, idx, walkErr,
                   exitcode, exitStatus, chansMade, pathsClosed, errors,
                   errClosed, hashdone, sinkPc, sinkCur, visited, stdout,
                   stderr, sentErrs, panicked>>

\* One iteration of the range loop up to the append or to the send of the
\* error.
HashRecv ==
    /\ Alive
    /\ hashPc = "recv"
    /\ Len(paths) > 0
    /\ LET p == Head(paths)
           r == hashFile(p.path, p.size)
       IN  /\ paths' = Tail(paths)
           /\ received' = Append(received, p.path)
           /\ IF r.err = Nil
              THEN /\ byhash' = MapAppend(byhash, r.h, p.path)
                   /\ UNCHANGED <<hashErr, hashPc>>
              ELSE /\ hashErr' = r.err
                   /\ hashPc' = "senderr"
                   /\ UNCHANGED byhash
    /\ UNCHANGED <<tree, nargs, quiet, pairs, root, pcMain, idx, walkErr,
                   exitcode, exitStatus, chansMade, pathsClosed, errors,
                   errClosed, hashdone, sinkPc, sinkCur, visited, stdout,
                   stderr, sentErrs, panicked>>

\* hash dropping the error instead of sending it.
HashSendErr_Drop ==
    /\ Alive
    /\ hashPc = "senderr"
    /\ hashErr' = Nil
    /\ hashPc' = "recv"
    /\ UNCHANGED <<tree, nargs, quiet, pairs, root, pcMain, idx, walkErr,
                   exitcode, chansMade, paths, pathsClosed, errClosed,
                   hashdone, byhash, sinkPc, sinkCur, visited, stdout, stderr,
                   received, errors, sentErrs, panicked, exitStatus>>

\* errors <- err
HashSendErr ==
    /\ Alive
    /\ hashPc = "senderr"
    /\ SendErr(hashErr)
    /\ hashErr' = Nil
    /\ hashPc' = "recv"
    /\ UNCHANGED <<tree, nargs, quiet, pairs, root, pcMain, idx, walkErr,
                   exitcode, chansMade, paths, pathsClosed, errClosed,
                   hashdone, byhash, sinkPc, sinkCur, visited, stdout, stderr,
                   received>>


\* hash sending on done inside the loop, before paths is closed and drained.
HashDone_InsideLoop ==
    /\ Alive
    /\ hashPc = "recv"
    /\ Len(hashdone) < DoneCap
    /\ hashdone' = Append(hashdone, "empty")
    /\ UNCHANGED <<tree, nargs, quiet, pairs, root, pcMain, idx, walkErr,
                   exitcode, exitStatus, chansMade, paths, pathsClosed, errors,
                   errClosed, hashErr, hashPc, byhash, sinkPc, sinkCur,
                   visited, stdout, stderr, sentErrs, received, panicked>>

\* hash leaving its loop as soon as it likes, paths closed and drained or
\* not.
HashDone_NotDrained ==
    /\ Alive
    /\ hashPc = "recv"
    /\ Len(hashdone) < DoneCap
    /\ hashdone' = Append(hashdone, "empty")
    /\ hashPc' = "finished"
    /\ UNCHANGED <<tree, nargs, quiet, pairs, root, pcMain, idx, walkErr,
                   exitcode, exitStatus, chansMade, paths, pathsClosed, errors,
                   errClosed, hashErr, byhash, sinkPc, sinkCur, visited,
                   stdout, stderr, sentErrs, received, panicked>>

\* hash sending on done twice.
HashDone_Twice ==
    /\ Alive
    /\ hashPc = "recv"
    /\ paths = <<>>
    /\ pathsClosed
    /\ Len(hashdone) + 1 < DoneCap
    /\ hashdone' = hashdone \o <<"empty", "empty">>
    /\ hashPc' = "finished"
    /\ UNCHANGED <<tree, nargs, quiet, pairs, root, pcMain, idx, walkErr,
                   exitcode, exitStatus, chansMade, paths, pathsClosed, errors,
                   errClosed, hashErr, byhash, sinkPc, sinkCur, visited,
                   stdout, stderr, sentErrs, received, panicked>>

\* paths is closed and drained: done <- empty{}
HashDone ==
    /\ Alive
    /\ hashPc = "recv"
    /\ paths = <<>>
    /\ pathsClosed
    /\ Len(hashdone) < DoneCap
    /\ hashdone' = Append(hashdone, "empty")
    /\ hashPc' = "finished"
    /\ UNCHANGED <<tree, nargs, quiet, pairs, root, pcMain, idx, walkErr,
                   exitcode, exitStatus, chansMade, paths, pathsClosed, errors,
                   errClosed, hashErr, byhash, sinkPc, sinkCur, visited,
                   stdout, stderr, sentErrs, received, panicked>>

-----------------------------------------------------------------------------
(* go func() { for e := range errors { ... } }() *)

SinkRecv ==
    /\ Alive
    /\ sinkPc = "recv"
    /\ Len(errors) > 0
    /\ sinkCur' = Head(errors)
    /\ errors' = Tail(errors)
    /\ sinkPc' = "print"
    /\ UNCHANGED <<tree, nargs, quiet, pairs, root, pcMain, idx, walkErr,
                   exitcode, exitStatus, chansMade, paths, pathsClosed,
                   errClosed, hashdone, hashPc, hashErr, byhash, visited,
                   stdout, stderr, sentErrs, received, panicked>>

\* fmt.Fprintf(os.Stderr, "%s: %s\n", os.Args[0], e)
SinkPrint ==
    /\ Alive
    /\ sinkPc = "print"
    /\ stderr' = Append(stderr, <<Prog, sinkCur>>)
    /\ sinkCur' = Nil
    /\ sinkPc' = "recv"
    /\ UNCHANGED <<tree, nargs, quiet, pairs, root, pcMain, idx, walkErr,
                   exitcode, exitStatus, chansMade, paths, pathsClosed, errors,
                   errClosed, hashdone, hashPc, hashErr, byhash, visited,
                   stdout, sentErrs, received, panicked>>

\* errors is closed and drained: the range loop ends.
SinkEnd ==
    /\ Alive
    /\ sinkPc = "recv"
    /\ errors = <<>>
    /\ errClosed
    /\ sinkPc' = "finished"
    /\ UNCHANGED <<tree, nargs, quiet, pairs, root, pcMain, idx, walkErr,
                   exitcode, exitStatus, chansMade, paths, pathsClosed, errors,
                   errClosed, hashdone, hashPc, hashErr, byhash, sinkCur,
                   visited, stdout, stderr, sentErrs, received, panicked>>

-----------------------------------------------------------------------------

Main ==
    \/ MainUsage
    \/ MainSetup
    \/ WalkVisit
    \/ WalkReturn
    \/ MainWaitHash
    \/ MainCloseErrors
    \/ MainReport
    \/ MainExit

Hasher == HashRecv \/ HashSendErr \/ HashDone

Sink == SinkRecv \/ SinkPrint \/ SinkEnd

Next == Main \/ Hasher \/ Sink

Spec == Init /\ [][Next]_vars

\* The Go scheduler does not leave every runnable goroutine waiting for
\* ever: while some step can be taken, one is.
FairSpec == Spec /\ WF_vars(Next)

\* The runs without -quiet, under the same scheduling.
InitNonQuiet == Init /\ ~quiet

FairSpecNonQuiet == InitNonQuiet /\ [][Next]_vars /\ WF_vars(Next)

-----------------------------------------------------------------------------
(* Vocabulary of the properties *)

Exited == pcMain = "exited"

\* A run with a valid argument list that ran to os.Exit(exitcode).
Completed == Exited /\ nargs <= 1

WalkerReturned == pcMain \notin {"start", "walk"}

Visits == 1..Len(tree)

TraversalErrors == { i \in Visits : tree[i].err }

RegularFiles == { i \in Visits : ~tree[i].err /\ tree[i].mode = "regular" }

GoodFiles == { i \in RegularFiles : tree[i].fail = "none" }

BadFiles == { i \in RegularFiles : tree[i].fail # "none" }

\* The error records the run sends if every producer gets to the end.
ErrorsDue == Cardinality(TraversalErrors) + Cardinality(BadFiles)

WalkErrsSent == { i \in Visits : CopiesIn(<<"walk", i>>, sentErrs) > 0 }

HashErrCount(p) ==
    CopiesIn(<<"open", p>>, sentErrs) + CopiesIn(<<"read", p>>, sentErrs)

HashErrsSent == { i \in Visits : HashErrCount(i) > 0 }

Range(f) == { f[i] : i \in DOMAIN f }

Bucketed == UNION { Range(byhash[h]) : h \in DOMAIN byhash }

\* The paths of an output line, in order: the fields between the spaces.
LinePaths(line) == [i \in 1..((Len(line) + 1) \div 2) |-> line[2 * i - 1]]

Reported == UNION { Range(LinePaths(stdout[i])) : i \in DOMAIN stdout }

SameGroup(p, q) ==
    \E i \in DOMAIN stdout : {p, q} \subseteq Range(LinePaths(stdout[i]))

-----------------------------------------------------------------------------
\* C1: the errors channel is closed only after walk has returned and hash
\* has signalled completion, and no send on errors, from walk or from hash,
\* ever hits a closed channel.
C1_CloseAfterProducers ==
    /\ errClosed => WalkerReturned /\ pathsClosed /\ hashPc = "finished"
    /\ ~panicked

\* errors is closed after both walk and hash have sent on it.
C1_Witness ==
    /\ errClosed
    /\ WalkErrsSent # {}
    /\ HashErrsSent # {}

\* C2: byhash is read by the reporting loop only when hash has finished,
\* and no step changes byhash once errors is closed.
C2_ReadAfterWrites ==
    /\ [](pcMain \in {"report", "exited"} /\ nargs <= 1 => hashPc = "finished")
    /\ [][errClosed => byhash' = byhash]_vars

\* The reporting loop has read a bucket that hash filled.
C2_Witness ==
    /\ pcMain = "report"
    /\ visited # {}
    /\ \E h \in DOMAIN byhash : Len(byhash[h]) > 1

\* C3: when errors are not suppressed, at process exit the number of
\* diagnostic lines printed equals the number of error records sent.
C3_AllErrorsPrinted ==
    Completed /\ ~quiet => Len(stderr) = BagCardinality(sentErrs)

\* C4: with -quiet nothing drains errors, and a run whose tree yields more
\* error records than the channel holds never closes errors, never reports
\* and never exits.
C4_QuietFloodHangs ==
    /\ [](quiet /\ nargs <= 1 /\ ErrorsDue > ErrCap =>
            /\ sinkPc = "notstarted"
            /\ ~errClosed
            /\ pcMain \in {"start", "walk", "waithash"}
            /\ stdout = <<>>
            /\ Alive)
    /\ [][quiet => Len(errors') >= Len(errors)]_vars

\* A producer stands at a send on the full channel and nothing can move.
C4_Witness ==
    /\ quiet
    /\ ErrorsDue > ErrCap
    /\ Len(errors) = ErrCap
    /\ BagCardinality(sentErrs) = ErrCap
    /\ \/ hashPc = "senderr"
       \/ pcMain = "walk" /\ idx < Len(tree) /\ tree[idx + 1].err
    /\ ~ENABLED Next

\* C5: when errors are not suppressed no reachable state is a deadlock and,
\* under fair scheduling, every run exits.
C5_NonQuietTerminates ==
    /\ [](~quiet /\ Alive => ENABLED Next)
    /\ (~quiet ~> Exited)

\* A non-quiet run exited after more errors than the channel holds.
C5_Witness ==
    /\ ~quiet
    /\ Exited
    /\ BagCardinality(sentErrs) > ErrCap

\* C6: two successfully hashed files are reported in the same group iff
\* they have the same size and the same content (the digest is taken over
\* the size followed by the content): equal content with different sizes
\* is never grouped.
C6_GroupIffSameSizeAndDigest ==
    Completed =>
        \A p \in GoodFiles : \A q \in GoodFiles \ {p} :
            SameGroup(p, q) <=>
                /\ tree[p].size = tree[q].size
                /\ tree[p].content = tree[q].content

\* A group was reported while two files of equal content and different
\* size were hashed.
C6_Witness ==
    /\ Completed
    /\ stdout # <<>>
    /\ \E p \in GoodFiles : \E q \in GoodFiles :
          /\ tree[p].content = tree[q].content
          /\ tree[p].size # tree[q].size

\* C7: a file whose hashFile fails is in no bucket and in no output line,
\* and exactly one error record is sent for it.
C7_FailedFileExcluded ==
    \A p \in BadFiles :
        /\ p \notin Bucketed
        /\ p \notin Reported
        /\ HashErrCount(p) <= 1
        /\ (p \in Range(received) /\ hashPc # "senderr" /\ Alive)
              => HashErrCount(p) = 1

\* A run with a failing file and a reported group has exited.
C7_Witness ==
    /\ Completed
    /\ BadFiles # {}
    /\ stdout # <<>>

\* C8: a completed run exits with 1 iff a traversal error occurred and with
\* 0 otherwise, whatever hashing errors there were, and exitcode once 1
\* stays 1.
C8_ExitCodeIffTraversalError ==
    /\ [](Completed => exitStatus = IF TraversalErrors # {} THEN 1 ELSE 0)
    /\ [][exitcode = 1 => exitcode' = 1]_vars

\* A traversal error was followed by a successful entry, and a hashing
\* error occurred.
C8_Witness ==
    /\ Completed
    /\ exitStatus = 1
    /\ HashErrsSent # {}
    /\ \E i \in TraversalErrors : \E j \in GoodFiles : i < j

\* C9 as stated: a completed run in which any error record, traversal or
\* hashing, was sent exits with 1.
C9_AnyErrorExitsOne ==
    Completed /\ BagCardinality(sentErrs) > 0 => exitStatus = 1

\* C9 as amended: a traversal error makes the exit code 1; hashing errors
\* alone leave it 0.
C9_OnlyTraversalErrorsExitOne ==
    Completed =>
        /\ WalkErrsSent # {} => exitStatus = 1
        /\ (WalkErrsSent = {} /\ HashErrsSent # {}) => exitStatus = 0

\* A run with a hashing error and no traversal error has exited.
C9_Witness ==
    /\ Completed
    /\ HashErrsSent # {}
    /\ WalkErrsSent = {}

\* C10: in default mode the output has exactly one line for every bucket of
\* 2 or more paths, holding that bucket's paths, and no line for a bucket of
\* 1 path, whose file is in no line.
C10_JoinedOneLinePerGroup ==
    Completed /\ ~pairs =>
        /\ \A h \in DOMAIN byhash :
              Cardinality({ i \in DOMAIN stdout : LinePaths(stdout[i]) = byhash[h] })
                = IF Len(byhash[h]) >= 2 THEN 1 ELSE 0
        /\ Len(stdout) = Cardinality({ h \in DOMAIN byhash : Len(byhash[h]) >= 2 })
        /\ \A h \in DOMAIN byhash :
              Len(byhash[h]) = 1 => byhash[h][1] \notin Reported

\* A bucket of two and a bucket of one, reported in default mode.
C10_Witness ==
    /\ Completed
    /\ ~pairs
    /\ \E h \in DOMAIN byhash : Len(byhash[h]) >= 2
    /\ \E h \in DOMAIN byhash : Len(byhash[h]) = 1

-----------------------------------------------------------------------------
\* The lines of the output whose paths all lie in bucket b.
LinesOf(b) ==
    { i \in DOMAIN stdout : Range(LinePaths(stdout[i])) \subseteq Range(b) }

\* C11: in pairwise mode a bucket of n >= 2 paths yields exactly n(n-1)/2
\* lines, one for each pair of positions i < j of the bucket, none repeated,
\* and no line pairs a path with itself.
C11_PairsPerBucket ==
    Completed /\ pairs =>
        \A h \in DOMAIN byhash :
            LET b == byhash[h]
                n == Len(b)
            IN  /\ Cardinality(LinesOf(b)) = IF n >= 2 THEN (n * (n - 1)) \div 2 ELSE 0
                /\ \A i \in 1..n : \A j \in (i + 1)..n :
                      Cardinality({ l \in LinesOf(b) :
                                      LinePaths(stdout[l]) = <<b[i], b[j]>> }) = 1
                /\ \A l \in LinesOf(b) :
                      /\ Len(LinePaths(stdout[l])) = 2
                      /\ LinePaths(stdout[l])[1] # LinePaths(stdout[l])[2]

\* A bucket of three paths was reported in pairwise mode.
C11_Witness ==
    /\ Completed
    /\ pairs
    /\ \E h \in DOMAIN byhash : Len(byhash[h]) = 3
    /\ Len(stdout) = 3

-----------------------------------------------------------------------------
\* What decides a file's bucket: its size and its content.
Fingerprint(p) == <<tree[p].size, tree[p].content>>

SameFiles(p) == { q \in GoodFiles : Fingerprint(q) = Fingerprint(p) }

\* The groups, as sets of paths, that the tree and the output mode call for.
ExpectedGroups ==
    IF pairs
    THEN { {p, q} : p \in GoodFiles, q \in GoodFiles } \cap
         { g \in SUBSET GoodFiles :
             Cardinality(g) = 2 /\ \A p \in g : g \subseteq SameFiles(p) }
    ELSE { SameFiles(p) : p \in { q \in GoodFiles : Cardinality(SameFiles(q)) >= 2 } }

\* The groups of the output so far, as sets of paths.
ReportedGroups == { Range(LinePaths(stdout[i])) : i \in DOMAIN stdout }

\* C12: the set of reported groups is decided by the tree, its failure
\* outcomes and the output mode alone: every completed run, however the
\* goroutines were interleaved, has reported exactly the groups the tree
\* calls for, and no run ever reports another group.
C12_GroupsDecidedByTree ==
    /\ ReportedGroups \subseteq ExpectedGroups
    /\ Completed => ReportedGroups = ExpectedGroups

\* A run that interleaved hashing errors with the walk reported a group.
C12_Witness ==
    /\ Completed
    /\ ReportedGroups # {}
    /\ HashErrsSent # {}

\* C13: with more than one positional argument the process exits with
\* status 3 and never makes a channel, starts a goroutine, visits an entry
\* or writes to stdout.
C13_UsageErrorBeforeAnything ==
    nargs > 1 =>
        /\ ~chansMade
        /\ hashPc = "notstarted"
        /\ sinkPc = "notstarted"
        /\ idx = 0
        /\ ~pathsClosed
        /\ stdout = <<>>
        /\ exitStatus \in {NoExit, UsageStatus}
        /\ Exited => exitStatus = UsageStatus

\* The run with two arguments has exited.
C13_Witness ==
    /\ nargs > 1
    /\ Exited
    /\ exitStatus = UsageStatus

-----------------------------------------------------------------------------
\* The shutdown states: 0 Running, 1 WalkDone (paths closed), 2 HashDone
\* (main has received the completion signal), 3 Closed (errors closed).
SignalReceived == pcMain \in {"closeerrors", "report"} \/ Completed

ShutdownStage ==
    IF errClosed THEN 3
    ELSE IF SignalReceived THEN 2
    ELSE IF pathsClosed THEN 1
    ELSE 0

\* C14: the shutdown states are passed in the order Running, WalkDone,
\* HashDone, Closed, one at a time: hash signals completion only with paths
\* closed and drained, and main closes errors only after it has received
\* the signal.
C14_ShutdownOrder ==
    /\ [](hashPc = "finished" => pathsClosed /\ paths = <<>>)
    /\ [](SignalReceived => hashPc = "finished")
    /\ [](errClosed => SignalReceived /\ hashdone = <<>>)
    /\ [][ShutdownStage' \in {ShutdownStage, ShutdownStage + 1}]_vars

\* errors is closed after a walk that kept hash waiting on paths.
C14_Witness ==
    /\ ShutdownStage = 3
    /\ received # <<>>
    /\ pcMain = "report"

\* C15: hash sends one completion signal per run and the send never
\* waits: the buffer of hashdone holds what hash sent and main has not
\* received, never more than one message, and main receives exactly one.
C15_OneCompletionSignal ==
    /\ [](Len(hashdone) =
            (IF hashPc = "finished" THEN 1 ELSE 0) - (IF SignalReceived THEN 1 ELSE 0))
    /\ [](Len(hashdone) <= 1)
    /\ []((hashPc = "recv" /\ paths = <<>> /\ pathsClosed) => Len(hashdone) < DoneCap)
    /\ [][Len(hashdone') > Len(hashdone) =>
            /\ hashPc = "recv" /\ hashPc' = "finished"
            /\ Len(hashdone') = Len(hashdone) + 1]_vars
    /\ [][Len(hashdone') < Len(hashdone) =>
            /\ pcMain = "waithash" /\ pcMain' = "closeerrors"
            /\ Len(hashdone') = Len(hashdone) - 1]_vars

\* The signal is in the buffer and main has yet to receive it.
C15_Witness ==
    /\ Len(hashdone) = 1
    /\ hashPc = "finished"
    /\ pcMain = "waithash"

Increasing(s) == \A i \in DOMAIN s : \A j \in DOMAIN s : i < j => s[i] < s[j]

\* The paths walk has pushed so far, in order.
Emitted == received \o [i \in DOMAIN paths |-> paths[i].path]

\* C16: hash receives the paths in the order walk pushed them (a path is
\* its position in the walk), so in every bucket and in every output line
\* a path that walk pushed earlier stands before one it pushed later.
C16_DiscoveryOrder ==
    /\ Increasing(Emitted)
    /\ \A h \in DOMAIN byhash : Increasing(byhash[h])
    /\ \A i \in DOMAIN stdout : Increasing(LinePaths(stdout[i]))

\* A bucket of three was reported.
C16_Witness ==
    /\ Completed
    /\ stdout # <<>>
    /\ \E h \in DOMAIN byhash : Len(byhash[h]) = 3

-----------------------------------------------------------------------------
\* The places of byhash that hold path p.
PlacesOf(p) ==
    { hi \in UNION { {h} \X DOMAIN byhash[h] : h \in DOMAIN byhash } :
        byhash[hi[1]][hi[2]] = p }

BucketedCount == Cardinality(UNION { {h} \X DOMAIN byhash[h] : h \in DOMAIN byhash })

\* The records hash has sent, as a bag.
HashErrBag ==
    [r \in { x \in DOMAIN sentErrs : x[1] # "walk" } |-> sentErrs[r]]

Occurrences(s, x) == Cardinality({ i \in DOMAIN s : s[i] = x })

\* C17: once errors is closed hash has received every path walk pushed
\* exactly once; each such path is in exactly one place of byhash or has
\* exactly one hashing error record, and the bucketed paths and the hashing
\* error records add up to the paths pushed.
C17_NoDescriptorLostOrRepeated ==
    errClosed =>
        /\ paths = <<>>
        /\ \A p \in RegularFiles : Occurrences(received, p) = 1
        /\ \A p \in Visits \ RegularFiles : Occurrences(received, p) = 0
        /\ \A p \in RegularFiles :
              /\ Cardinality(PlacesOf(p)) + HashErrCount(p) = 1
              /\ CopiesIn(<<"open", p>>, sentErrs) <= 1
              /\ CopiesIn(<<"read", p>>, sentErrs) <= 1
        /\ BucketedCount + BagCardinality(HashErrBag) = Cardinality(RegularFiles)

\* errors is closed after a run with a bucketed file and a failed one.
C17_Witness ==
    /\ errClosed
    /\ BucketedCount > 0
    /\ BagCardinality(HashErrBag) > 0

\* The entries among the first n visits that visit pushes on paths, in
\* order.
RECURSIVE RegularUpTo(_)
RegularUpTo(n) ==
    IF n = 0 THEN <<>>
    ELSE IF n \in RegularFiles THEN Append(RegularUpTo(n - 1), n)
    ELSE RegularUpTo(n - 1)

RootFails == tree = <<TravErr>> /\ nargs <= 1

\* C19: when the walk cannot start on the root, walk sends one error record
\* and no second one after filepath.Walk returns, sets exitcode to 1, pushes
\* nothing on paths and closes it, and the run reports no group.
C19_RootFailureOneRecord ==
    RootFails =>
        /\ BagCardinality(sentErrs) <= 1
        /\ Emitted = <<>>
        /\ byhash = <<>>
        /\ stdout = <<>>
        /\ WalkerReturned =>
              /\ sentErrs = SetToBag({<<"walk", 1>>})
              /\ exitcode = 1
              /\ pathsClosed
        /\ Completed => exitStatus = 1

\* The run on the unreadable root has exited.
C19_Witness ==
    /\ RootFails
    /\ Completed
    /\ BagCardinality(sentErrs) = 1

-----------------------------------------------------------------------------
\* walk or hash stands at a send on errors.
SendPending ==
    \/ hashPc = "senderr"
    \/ pcMain = "walk" /\ idx < Len(tree) /\ tree[idx + 1].err

WithinCapacity == nargs <= 1 /\ ErrorsDue <= ErrCap

\* C20: with -quiet and at most 10 error records due, no send on errors
\* ever waits, the run exits under fair scheduling, and it has reported the
\* groups and exits with the code that the tree decides, which are those of
\* the run without -quiet.
C20_QuietWithinCapacity ==
    /\ []((quiet /\ WithinCapacity /\ SendPending /\ Alive) =>
            ~errClosed /\ Len(errors) < ErrCap)
    /\ ((quiet /\ WithinCapacity) ~> Exited)
    /\ [](Completed =>
            /\ ReportedGroups = ExpectedGroups
            /\ exitStatus = IF TraversalErrors # {} THEN 1 ELSE 0)

\* A quiet run that filled the errors channel to its capacity has exited.
C20_Witness ==
    /\ quiet
    /\ Completed
    /\ BagCardinality(sentErrs) = ErrCap
    /\ Len(errors) = ErrCap

====
